---- MODULE Spec2Model ----
(***************************************************************************)
(* Piano-roll encode / decode of app/utils/audio_converter.py:             *)
(*   midi_to_pianoroll_tensor   (notes of a MIDI file -> grid)              *)
(*   pianoroll_tensor_to_midi   (grid -> notes of a MIDI instrument)        *)
(*                                                                         *)
(* Representation.  Times are integers in ticks of 1/TicksPerSecond s; the *)
(* sample rates of the model divide TicksPerSecond, so every product and   *)
(* quotient the code forms in floating point is exact.  Cell values are    *)
(* integers in units of 1/Unit (Unit = 2*127), so that velocity/127.0 and  *)
(* 0.5 are both exact.  Grids are sequences of rows, rows sequences of     *)
(* cells: the code's piano_roll[t, p] is piano_roll[t + 1][p + 1] here.    *)
(***************************************************************************)
EXTENDS Integers, Sequences, FiniteSets, TLC

VARIABLES pc, origin, fs, pitch_range, include_velocity, velocity_threshold,
          note_duration_steps, end_time, piano_roll, note, covering,
          time_step, current_notes, notes, result, passes, prev_roll

vars == <<pc, origin, fs, pitch_range, include_velocity, velocity_threshold,
          note_duration_steps, end_time, piano_roll, note, covering,
          time_step, current_notes, notes, result, passes, prev_roll>>

----------------------------------------------------------------------------
(* Bounds and input domains *)

MaxTick == 4

MaxTimeSteps == 3

RoundTripPasses == 2

VelocityMax == 127

DefaultFs == 4

TicksPerSecond == 2 * DefaultFs

Unit == 2 * VelocityMax

Half == Unit \div 2

SampleRates == {0, 2, DefaultFs}

PitchRanges == {<<60, 62>>, <<62, 60>>}

DecodePitchRange == <<60, 62>>

Pitches == {59, 60, 61, 62}

Velocities == {50, 100}

CellValues == {0, Half, Unit}

Thresholds == {-1, Half}

MinDurations == {-1, 1, 2}

NoNote == [pitch |-> -1, start |-> 0, end |-> 0, velocity |-> 0]

----------------------------------------------------------------------------
(* Arithmetic of the host language *)

Max(a, b) == IF a >= b THEN a ELSE b

Min(a, b) == IF a <= b THEN a ELSE b

\* math.ceil(n / d), n >= 0, d > 0
Ceil(n, d) == (n + d - 1) \div d

\* round half up, as round() of other languages does
Round_HalfUp(n, d) == (2 * n + d) \div (2 * d)

\* Python 3 round(n / d), n >= 0, d > 0: to nearest, ties to even
Round(n, d) ==
  LET q == n \div d
      r == n % d
  IN  IF 2 * r < d THEN q
      ELSE IF 2 * r > d THEN q + 1
      ELSE IF q % 2 = 0 THEN q ELSE q + 1

----------------------------------------------------------------------------
(* midi_to_pianoroll_tensor *)

num_time_steps_of(et, rate) == Ceil(et * rate, TicksPerSecond)

num_pitches_of(pr) == pr[2] - pr[1]

zeros(rows, cols) == [t \in 1..rows |-> [p \in 1..cols |-> 0]]

\* the upper end of the range is not checked
InRange_NoUpper(pr, pitch) == pr[1] <= pitch

InRange(pr, pitch) == pr[1] <= pitch /\ pitch < pr[2]

start_step_of(n, rate) == Round(n.start * rate, TicksPerSecond)

end_step_of(n, rate) == Round(n.end * rate, TicksPerSecond)

\* velocity normalised by 128 instead of 127
value_of_128(n, iv) == IF iv THEN (n.velocity * Unit) \div (VelocityMax + 1) ELSE Unit

value_of(n, iv) == IF iv THEN n.velocity * (Unit \div VelocityMax) ELSE Unit

\* the row indices (0-based) of the slice a[start:stop] of an array of n rows,
\* 0 <= start
SliceRows(start, stop, n) == {t \in 0..(n - 1) : start <= t /\ t < stop}

\* overlapping notes add up
Merge_Sum(old, value) == old + value

Merge(old, value) == Max(old, value)

\* one iteration of the loop over instrument.notes; IndexError is what numpy
\* raises for a column index outside [-cols, cols)
WriteNote(roll, n, rate, pr, iv) ==
  LET rows == Len(roll)
      cols == num_pitches_of(pr)
      start_step == start_step_of(n, rate)
      end_step == end_step_of(n, rate)
      pitch_index == n.pitch - pr[1]
      col == IF pitch_index < 0 THEN pitch_index + cols ELSE pitch_index
      value == value_of(n, iv)
      cells == SliceRows(start_step, Min(end_step, rows), rows)
  IN  IF ~InRange(pr, n.pitch) THEN [ok |-> TRUE, roll |-> roll]
      ELSE IF ~(start_step < rows) THEN [ok |-> TRUE, roll |-> roll]
      ELSE IF col < 0 \/ col >= cols THEN [ok |-> FALSE, roll |-> roll]
      ELSE [ok |-> TRUE,
            roll |-> [t \in 1..rows |-> [p \in 1..cols |->
                        IF p = col + 1 /\ (t - 1) \in cells
                        THEN Merge(roll[t][p], value)
                        ELSE roll[t][p]]]]

RECURSIVE WriteAll(_, _, _, _, _, _)
WriteAll(acc, ns, i, rate, pr, iv) ==
  IF i > Len(ns) \/ ~acc.ok THEN acc
  ELSE WriteAll(WriteNote(acc.roll, ns[i], rate, pr, iv), ns, i + 1, rate, pr, iv)

\* the whole function on a note list whose file ends at et
midi_to_pianoroll_tensor(ns, et, rate, pr, iv) ==
  IF num_pitches_of(pr) <= 0 THEN [ok |-> FALSE, roll |-> <<>>]
  ELSE WriteAll([ok |-> TRUE,
                 roll |-> zeros(num_time_steps_of(et, rate), num_pitches_of(pr))],
                ns, 1, rate, pr, iv)

\* the notes a MIDI file ending at et can hold: note-off strictly after note-on
MidiNotes(et) ==
  {n \in [pitch : Pitches, start : 0..MaxTick, end : 0..MaxTick,
          velocity : Velocities] : n.start < n.end /\ n.end <= et}

----------------------------------------------------------------------------
(* pianoroll_tensor_to_midi *)

seconds_per_step_of(rate) == TicksPerSecond \div rate

\* a cell at the threshold is not active
is_active_Strict(velocity_value, threshold) == velocity_value > threshold

is_active(velocity_value, threshold) == velocity_value >= threshold

\* a run of exactly the minimum length is dropped
LongEnough_Strict(duration_steps, min_steps) == duration_steps > min_steps

LongEnough(duration_steps, min_steps) == duration_steps >= min_steps

\* int(start_velocity * 127)
NoteVelocity(start_velocity) == (start_velocity * VelocityMax) \div Unit

\* the open notes end at the last step instead of after it
FinalTime_LastStep(rows, sps) == (rows - 1) * sps

FinalTime(rows, sps) == rows * sps

HasKey(cn, pitch) == \E i \in 1..Len(cn) : cn[i].pitch = pitch

Entry(cn, pitch) == cn[CHOOSE i \in 1..Len(cn) : cn[i].pitch = pitch]

\* closing one note forgets every open note
Pop_Clear(cn, pitch) == <<>>

Pop(cn, pitch) == SelectSeq(cn, LAMBDA e : e.pitch # pitch)

MakeNote(velocity, pitch, start, end) ==
  [velocity |-> velocity, pitch |-> pitch, start |-> start, end |-> end]

\* the body of the inner loop, for one cell
ScanCell(st, roll, t, pitch_index, min_pitch, sps, threshold, min_steps) ==
  LET pitch == min_pitch + pitch_index
      velocity_value == roll[t + 1][pitch_index + 1]
      active == is_active(velocity_value, threshold)
  IN  IF HasKey(st.current_notes, pitch)
      THEN IF ~active
           THEN LET e == Entry(st.current_notes, pitch)
                    duration_steps == t - e.start_step
                IN  [current_notes |-> Pop(st.current_notes, pitch),
                     notes |-> IF LongEnough(duration_steps, min_steps)
                               THEN Append(st.notes,
                                      MakeNote(NoteVelocity(e.start_velocity), pitch,
                                               e.start_step * sps, t * sps))
                               ELSE st.notes]
           ELSE st
      ELSE IF active
           THEN [current_notes |-> Append(st.current_notes,
                                     [pitch |-> pitch, start_step |-> t,
                                      start_velocity |-> velocity_value]),
                 notes |-> st.notes]
           ELSE st

RECURSIVE ScanRow(_, _, _, _, _, _, _, _)
ScanRow(st, roll, t, pitch_index, min_pitch, sps, threshold, min_steps) ==
  IF Len(roll) = 0 \/ pitch_index >= Len(roll[1]) THEN st
  ELSE ScanRow(ScanCell(st, roll, t, pitch_index, min_pitch, sps, threshold, min_steps),
               roll, t, pitch_index + 1, min_pitch, sps, threshold, min_steps)

\* the loop over current_notes.items() after the scan, in insertion order
RECURSIVE FlushNotes(_, _, _, _, _, _)
FlushNotes(acc, cn, i, rows, sps, min_steps) ==
  IF i > Len(cn) THEN acc
  ELSE LET e == cn[i]
           duration_steps == rows - e.start_step
       IN  FlushNotes(IF LongEnough(duration_steps, min_steps)
                      THEN Append(acc, MakeNote(NoteVelocity(e.start_velocity), e.pitch,
                                                e.start_step * sps, FinalTime(rows, sps)))
                      ELSE acc,
                      cn, i + 1, rows, sps, min_steps)

RECURSIVE ScanAll(_, _, _, _, _, _, _)
ScanAll(st, roll, t, min_pitch, sps, threshold, min_steps) ==
  IF t >= Len(roll) THEN st
  ELSE ScanAll(ScanRow(st, roll, t, 0, min_pitch, sps, threshold, min_steps),
               roll, t + 1, min_pitch, sps, threshold, min_steps)

\* the whole function: the notes of the instrument, or failure
pianoroll_tensor_to_midi(roll, rate, pr, threshold, min_steps) ==
  IF rate = 0 THEN [ok |-> FALSE, notes |-> <<>>]
  ELSE LET sps == seconds_per_step_of(rate)
           st == ScanAll([current_notes |-> <<>>, notes |-> <<>>], roll, 0, pr[1],
                         sps, threshold, min_steps)
       IN  [ok |-> TRUE,
            notes |-> FlushNotes(st.notes, st.current_notes, 1, Len(roll), sps, min_steps)]

\* PrettyMIDI.get_end_time() of a file holding exactly these notes
RECURSIVE get_end_time(_, _)
get_end_time(ns, i) ==
  IF i > Len(ns) THEN 0 ELSE Max(ns[i].end, get_end_time(ns, i + 1))

----------------------------------------------------------------------------
(* The calls as a state machine *)

Grids(cols) ==
  UNION {[1..rows -> [1..cols -> CellValues]] : rows \in 0..MaxTimeSteps}

InitEncode ==
  /\ pc = "enc_start"
  /\ origin = "midi"
  /\ fs \in SampleRates
  /\ pitch_range \in PitchRanges
  /\ include_velocity \in BOOLEAN
  /\ velocity_threshold = 0
  /\ note_duration_steps = 0
  /\ end_time \in 0..MaxTick
  /\ piano_roll = <<>>

InitDecode ==
  /\ pc = "dec_start"
  /\ origin = "tensor"
  /\ fs \in SampleRates
  /\ pitch_range = DecodePitchRange
  /\ include_velocity = TRUE
  /\ velocity_threshold \in Thresholds
  /\ note_duration_steps \in MinDurations
  /\ end_time = 0
  /\ piano_roll \in Grids(num_pitches_of(DecodePitchRange))

Init ==
  /\ InitEncode \/ InitDecode
  /\ note = NoNote
  /\ covering = <<>>
  /\ time_step = 0
  /\ current_notes = <<>>
  /\ notes = <<>>
  /\ result = "pending"
  /\ passes = 0
  /\ prev_roll = <<>>

decode_vars == <<time_step, current_notes, notes>>

param_vars == <<origin, fs, pitch_range, include_velocity, velocity_threshold,
                note_duration_steps, end_time>>

\* lines 250-260: the end time, the shape, the range check, the zero grid
EncStart ==
  /\ pc = "enc_start"
  /\ IF num_pitches_of(pitch_range) <= 0
     THEN /\ pc' = "enc_done"
          /\ result' = "None"
          /\ UNCHANGED <<piano_roll, covering>>
     ELSE /\ pc' = "enc_loop"
          /\ piano_roll' = zeros(num_time_steps_of(end_time, fs), num_pitches_of(pitch_range))
          /\ covering' = [t \in 1..num_time_steps_of(end_time, fs) |->
                            [p \in 1..num_pitches_of(pitch_range) |-> {}]]
          /\ UNCHANGED result
  /\ UNCHANGED <<param_vars, note, decode_vars, passes, prev_roll>>

\* what the claim's "events covering a cell" are: in-range notes whose
\* half-open step range holds the row
Covers(n, t, p) ==
  /\ InRange(pitch_range, n.pitch)
  /\ p = n.pitch - pitch_range[1]
  /\ start_step_of(n, fs) <= t
  /\ t < end_step_of(n, fs)

\* lines 262-283: one iteration of the loop over the file's non-drum notes
EncNote ==
  /\ pc = "enc_loop"
  /\ \E n \in MidiNotes(end_time) :
       LET w == WriteNote(piano_roll, n, fs, pitch_range, include_velocity)
       IN  /\ note' = n
           /\ IF w.ok
              THEN /\ piano_roll' = w.roll
                   /\ covering' = [t \in DOMAIN covering |-> [p \in DOMAIN covering[t] |->
                                     IF Covers(n, t - 1, p - 1)
                                     THEN covering[t][p] \cup {value_of(n, include_velocity)}
                                     ELSE covering[t][p]]]
                   /\ UNCHANGED <<pc, result>>
              ELSE /\ pc' = "enc_done"
                   /\ result' = "None"
                   /\ UNCHANGED <<piano_roll, covering>>
  /\ UNCHANGED <<param_vars, decode_vars, passes, prev_roll>>

\* line 285: the loop is over, the grid is returned
EncReturn ==
  /\ pc = "enc_loop"
  /\ pc' = "enc_done"
  /\ result' = "ok"
  /\ note' = NoNote
  /\ UNCHANGED <<param_vars, piano_roll, covering, decode_vars, passes, prev_roll>>

\* the caller hands the returned grid to pianoroll_tensor_to_midi
Handoff ==
  /\ pc = "enc_done"
  /\ result = "ok"
  /\ pc' = "dec_start"
  /\ result' = "pending"
  /\ velocity_threshold' \in Thresholds
  /\ note_duration_steps' \in MinDurations
  /\ note' = NoNote
  /\ covering' = <<>>
  /\ UNCHANGED <<origin, fs, pitch_range, include_velocity, end_time, piano_roll,
                 decode_vars, passes, prev_roll>>

\* lines 306-313: 1.0 / fs raises ZeroDivisionError for fs = 0
DecStart ==
  /\ pc = "dec_start"
  /\ IF fs = 0
     THEN /\ pc' = "dec_done"
          /\ result' = "None"
     ELSE /\ pc' = "dec_scan"
          /\ UNCHANGED result
  /\ time_step' = 0
  /\ current_notes' = <<>>
  /\ notes' = <<>>
  /\ UNCHANGED <<param_vars, piano_roll, note, covering, passes, prev_roll>>

\* lines 315-337: one iteration of the outer loop, all pitches of one row
DecScanRow ==
  /\ pc = "dec_scan"
  /\ time_step < Len(piano_roll)
  /\ LET st == ScanRow([current_notes |-> current_notes, notes |-> notes], piano_roll,
                       time_step, 0, pitch_range[1], seconds_per_step_of(fs),
                       velocity_threshold, note_duration_steps)
     IN  /\ current_notes' = st.current_notes
         /\ notes' = st.notes
  /\ time_step' = time_step + 1
  /\ UNCHANGED <<pc, param_vars, piano_roll, note, covering, result, passes, prev_roll>>

\* lines 339-356: the notes still open are closed at the end of the grid, the
\* file is written and its path returned
DecFlush ==
  /\ pc = "dec_scan"
  /\ time_step = Len(piano_roll)
  /\ notes' = FlushNotes(notes, current_notes, 1, Len(piano_roll),
                         seconds_per_step_of(fs), note_duration_steps)
  /\ pc' = "dec_done"
  /\ result' = "ok"
  /\ UNCHANGED <<param_vars, piano_roll, note, covering, time_step, current_notes,
                 passes, prev_roll>>

\* the caller encodes the notes decode produced with midi_to_pianoroll_tensor
\* (the file between the two calls holds exactly these notes and nothing
\* else) and decodes the grid again, all parameters unchanged
Reencode ==
  /\ pc = "dec_done"
  /\ result = "ok"
  /\ origin = "midi"
  /\ passes < RoundTripPasses
  /\ LET g == midi_to_pianoroll_tensor(notes, get_end_time(notes, 1), fs, pitch_range,
                                       include_velocity)
     IN  /\ g.ok
         /\ piano_roll' = g.roll
  /\ prev_roll' = piano_roll
  /\ passes' = passes + 1
  /\ pc' = "dec_start"
  /\ result' = "pending"
  /\ UNCHANGED <<param_vars, note, covering, decode_vars>>

Next ==
  \/ EncStart
  \/ EncNote
  \/ EncReturn
  \/ Handoff
  \/ DecStart
  \/ DecScanRow
  \/ DecFlush
  \/ Reencode

Spec == Init /\ [][Next]_vars

----------------------------------------------------------------------------
(* Vocabulary of the properties, stated from the grid and the parameters   *)
(* alone                                                                   *)

Abs(x) == IF x < 0 THEN -x ELSE x

Rows == Len(piano_roll)

Cols == IF Rows = 0 THEN 0 ELSE Len(piano_roll[1])

Cell(t, p) == piano_roll[t + 1][p + 1]

ActiveAt(t, p) == Cell(t, p) >= velocity_threshold

\* the maximal runs of active cells of column p, as <<first step, step after>>
MaximalRuns(p) ==
  {r \in (0..(Rows - 1)) \X (1..Rows) :
     /\ r[1] < r[2]
     /\ \A t \in r[1]..(r[2] - 1) : ActiveAt(t, p)
     /\ r[1] = 0 \/ ~ActiveAt(r[1] - 1, p)
     /\ r[2] = Rows \/ ~ActiveAt(r[2], p)}

\* note i is the note of column p from step s to step e: times are steps / fs
NoteSpans(i, p, s, e) ==
  /\ notes[i].pitch = pitch_range[1] + p
  /\ notes[i].start * fs = s * TicksPerSecond
  /\ notes[i].end * fs = e * TicksPerSecond

NotesOfRun(p, s, e) == {i \in 1..Len(notes) : NoteSpans(i, p, s, e)}

DecodeReturned == pc = "dec_done" /\ result = "ok"

\* C1: when decode returns, every maximal run of cells >= threshold of a
\* pitch column, of length L, has exactly one note (that pitch, start at the
\* run's first step, end at the step after it) if L >= min_duration_steps
\* and none if L < min_duration_steps, and every note is the note of such a
\* run.
C1_RunsBecomeNotes ==
  DecodeReturned =>
    /\ \A p \in 0..(Cols - 1) : \A r \in MaximalRuns(p) :
         Cardinality(NotesOfRun(p, r[1], r[2])) =
           IF r[2] - r[1] >= note_duration_steps THEN 1 ELSE 0
    /\ \A i \in 1..Len(notes) : \E p \in 0..(Cols - 1) : \E r \in MaximalRuns(p) :
         /\ NoteSpans(i, p, r[1], r[2])
         /\ r[2] - r[1] >= note_duration_steps

C1_Witness ==
  /\ DecodeReturned
  /\ note_duration_steps = 2
  /\ \E p \in 0..(Cols - 1) : \E r \in MaximalRuns(p) :
       r[2] - r[1] = 1 /\ NotesOfRun(p, r[1], r[2]) = {}
  /\ \E p \in 0..(Cols - 1) : \E r \in MaximalRuns(p) :
       r[2] - r[1] = 2 /\ Cardinality(NotesOfRun(p, r[1], r[2])) = 1

\* the maximum of a set of intensities, 0 for the empty set
MaxOf(S) == IF S = {} THEN 0 ELSE CHOOSE m \in S : \A x \in S : x <= m

\* C2: during and after the loop over the notes, each cell holds the maximum
\* intensity over the notes written so far that cover it, 0 if none does:
\* where intensities a < b overlap the cell holds b, not a + b and not a, in
\* either order of processing.
C2_MaximumMerge ==
  (pc = "enc_loop" \/ (pc = "enc_done" /\ result = "ok")) =>
    \A t \in 1..Len(piano_roll) : \A p \in 1..Len(piano_roll[t]) :
      piano_roll[t][p] = MaxOf(covering[t][p])

\* the note written last is the quieter of two that overlap in a cell
C2_Witness ==
  /\ pc = "enc_loop"
  /\ note.velocity = 50
  /\ \E t \in 1..Len(piano_roll) : \E p \in 1..Len(piano_roll[t]) :
       /\ Covers(note, t - 1, p - 1)
       /\ Cardinality(covering[t][p]) = 2
       /\ piano_roll[t][p] = 100 * (Unit \div VelocityMax)

\* C3: when decode returns, a pitch whose cell at the last time step is
\* >= threshold has exactly one note ending at num_time_steps / sample_rate
\* if its final run (from step s) has num_time_steps - s >= min_duration_steps,
\* that note starting at s, and no note ending there if the run is shorter.
C3_FlushAtEnd ==
  DecodeReturned =>
    \A p \in 0..(Cols - 1) :
      (Rows > 0 /\ ActiveAt(Rows - 1, p)) =>
        \A r \in MaximalRuns(p) :
          r[2] = Rows =>
            LET ending == {i \in 1..Len(notes) :
                             /\ notes[i].pitch = pitch_range[1] + p
                             /\ notes[i].end * fs = Rows * TicksPerSecond}
            IN  IF Rows - r[1] >= note_duration_steps
                THEN /\ Cardinality(ending) = 1
                     /\ \A i \in ending : notes[i].start * fs = r[1] * TicksPerSecond
                ELSE ending = {}

\* one pitch is flushed into a note, another pitch's final run is too short
C3_Witness ==
  /\ DecodeReturned
  /\ Rows = MaxTimeSteps
  /\ note_duration_steps = 2
  /\ \E p \in 0..(Cols - 1) :
       /\ ActiveAt(Rows - 1, p)
       /\ ~ActiveAt(Rows - 2, p)
  /\ \E p \in 0..(Cols - 1) : \E i \in 1..Len(notes) :
       /\ ActiveAt(Rows - 1, p)
       /\ ~ActiveAt(0, p)
       /\ NoteSpans(i, p, Rows - 2, Rows)

\* the pitch of a note lies outside [pitch_min, pitch_max)
OutOfRange(pitch) == pitch < pitch_range[1] \/ pitch >= pitch_range[2]

\* a step of the loop over the notes: it goes on, or it fails
NoteStep == pc = "enc_loop" /\ (pc' = "enc_loop" \/ result' = "None")

\* C4: processing a note whose pitch is < pitch_min or >= pitch_max leaves
\* every cell of the grid as it was and does not make encode fail.
C4_RangeExclusion ==
  [][(NoteStep /\ OutOfRange(note'.pitch)) =>
       (piano_roll' = piano_roll /\ result' # "None")]_vars

\* a note at pitch_max has been processed after the grid was written to
C4_Witness ==
  /\ pc = "enc_loop"
  /\ note.pitch = pitch_range[2]
  /\ \E t \in 1..Len(piano_roll) : \E p \in 1..Len(piano_roll[t]) : piano_roll[t][p] > 0

\* the step a note's start time stands for
StepOf(ticks) == (ticks * fs) \div TicksPerSecond

\* C5: every note of the instrument has velocity round(x * 127), x the cell
\* value at the first step of its run.
C5_VelocityRounded ==
  (pc \in {"dec_scan", "dec_done"} /\ fs > 0) =>
    \A i \in 1..Len(notes) :
      notes[i].velocity =
        Round(Cell(StepOf(notes[i].start), notes[i].pitch - pitch_range[1]) * VelocityMax,
              Unit)

InvalidDecodeParameters ==
  fs <= 0 \/ velocity_threshold < 0 \/ note_duration_steps < 0

\* C7: a decode called with sample_rate <= 0, threshold < 0 or
\* min_duration_steps < 0 scans no cell, emits no note and returns failure.
C7_InvalidRejected ==
  (InvalidDecodeParameters /\ pc \in {"dec_scan", "dec_done"}) =>
    /\ pc # "dec_scan"
    /\ notes = <<>>
    /\ result = "None"

ColumnGrid(p) == [t \in 1..Rows |-> <<Cell(t - 1, p)>>]

NotesOfPitch(pitch) == SelectSeq(notes, LAMBDA n : n.pitch = pitch)

\* C8: when decode returns, the notes of each pitch, in order, are the notes
\* a decode of that pitch's column alone returns (same parameters).
C8_PitchIndependence ==
  DecodeReturned =>
    \A p \in 0..(Cols - 1) :
      NotesOfPitch(pitch_range[1] + p) =
        pianoroll_tensor_to_midi(ColumnGrid(p), fs,
                                 <<pitch_range[1] + p, pitch_range[1] + p + 1>>,
                                 velocity_threshold, note_duration_steps).notes

\* both pitches have notes, and one pitch's note closes while the other's
\* is open
C8_Witness ==
  /\ DecodeReturned
  /\ Cols = 2
  /\ Rows = MaxTimeSteps
  /\ NotesOfPitch(pitch_range[1]) # <<>>
  /\ NotesOfPitch(pitch_range[1] + 1) # <<>>
  /\ ActiveAt(0, 0) /\ ~ActiveAt(1, 0)
  /\ ActiveAt(0, 1) /\ ActiveAt(1, 1) /\ ActiveAt(2, 1)

\* the cells a note writes under the clipping of both steps to
\* [0, num_time_steps)
ClipToGrid(x) == Max(0, Min(x, Rows - 1))

\* k is round(ticks / TicksPerSecond * fs): nearest, a tie to the even step
IsRounded(k, ticks) ==
  \/ 2 * Abs(k * TicksPerSecond - ticks * fs) < TicksPerSecond
  \/ /\ 2 * Abs(k * TicksPerSecond - ticks * fs) = TicksPerSecond
     /\ k % 2 = 0

\* the step from piano_roll to piano_roll' writes the cells [s, e) of
\* column col with value v and no other cell
WritesExactly(s, e, col, v) ==
  \A t \in 1..Len(piano_roll) : \A p \in 1..Len(piano_roll[t]) :
    piano_roll'[t][p] =
      IF p = col + 1 /\ s <= t - 1 /\ t - 1 < e
      THEN Max(piano_roll[t][p], v)
      ELSE piano_roll[t][p]

ClaimedValue(n) == IF include_velocity THEN n.velocity * (Unit \div VelocityMax) ELSE Unit

\* C9 as stated: an in-range note writes exactly the cells [start_step,
\* end_step) of its column, both steps rounded and then clipped to
\* [0, num_time_steps).
C9_ClippedHalfOpen ==
  [][(NoteStep /\ ~OutOfRange(note'.pitch)) =>
       \E s \in 0..Rows : \E e \in 0..Rows :
         /\ IsRounded(s, note'.start)
         /\ IsRounded(e, note'.end)
         /\ result' # "None"
         /\ WritesExactly(ClipToGrid(s), ClipToGrid(e), note'.pitch - pitch_range[1],
                          ClaimedValue(note'))]_vars

\* C9 amended: the end step is clipped to num_time_steps itself, the start
\* step is not clipped.
C9_HalfOpenToGridEnd ==
  [][(NoteStep /\ ~OutOfRange(note'.pitch)) =>
       \E s \in 0..Rows : \E e \in 0..Rows :
         /\ IsRounded(s, note'.start)
         /\ IsRounded(e, note'.end)
         /\ result' # "None"
         /\ WritesExactly(s, Min(e, Rows), note'.pitch - pitch_range[1],
                          ClaimedValue(note'))]_vars

\* a note that reaches the last row has been written; so has one whose two
\* steps coincide
C9_Witness ==
  /\ pc = "enc_loop"
  /\ ~OutOfRange(note.pitch)
  /\ Rows >= 2
  /\ end_step_of(note, fs) = Rows
  /\ start_step_of(note, fs) = Rows - 1
  /\ piano_roll[Rows][note.pitch - pitch_range[1] + 1] = ClaimedValue(note)
  /\ piano_roll[Rows - 1][note.pitch - pitch_range[1] + 1] = 0

\* the notes of one pitch have start < end and follow one another in time
NotesOrdered ==
  /\ \A i \in 1..Len(notes) : notes[i].start < notes[i].end
  /\ \A i \in 1..Len(notes) : \A j \in 1..Len(notes) :
       (i < j /\ notes[i].pitch = notes[j].pitch) => notes[i].end <= notes[j].start

\* C10: once the scan has processed time step t, a pitch is a key of
\* current_notes exactly if its cell at t is >= threshold, and then its
\* entry holds the first step s of the maximal active run that contains t
\* and the cell value at s; the notes of one pitch have start < end, do not
\* overlap and are in increasing time order.
C10_TrackingState ==
  (pc = "dec_scan") =>
    /\ time_step = 0 => current_notes = <<>>
    /\ \A i \in 1..Len(current_notes) : \A j \in 1..Len(current_notes) :
         current_notes[i].pitch = current_notes[j].pitch => i = j
    /\ \A i \in 1..Len(current_notes) :
         current_notes[i].pitch - pitch_range[1] \in 0..(Cols - 1)
    /\ time_step >= 1 =>
         \A p \in 0..(Cols - 1) :
           LET t == time_step - 1
               pitch == pitch_range[1] + p
           IN  /\ HasKey(current_notes, pitch) <=> ActiveAt(t, p)
               /\ HasKey(current_notes, pitch) =>
                    LET s == Entry(current_notes, pitch).start_step
                    IN  /\ 0 <= s /\ s <= t
                        /\ \A u \in s..t : ActiveAt(u, p)
                        /\ s = 0 \/ ~ActiveAt(s - 1, p)
                        /\ Entry(current_notes, pitch).start_velocity = Cell(s, p)
    /\ NotesOrdered

\* mid-scan: one pitch is open since an earlier step with a different value
\* now, and the same pitch already has a note
C10_Witness ==
  /\ pc = "dec_scan"
  /\ time_step = MaxTimeSteps
  /\ \E i \in 1..Len(current_notes) :
       /\ current_notes[i].start_step = time_step - 2
       /\ current_notes[i].start_velocity #
            Cell(time_step - 1, current_notes[i].pitch - pitch_range[1])
  /\ \E i \in 1..Len(current_notes) : \E j \in 1..Len(notes) :
       /\ current_notes[i].start_step = time_step - 1
       /\ notes[j].pitch = current_notes[i].pitch

====
